---- MODULE Spec2Model ----
(***************************************************************************)
(* The "from scratch" kNN functions of the kNN notebook                    *)
(* (src/unnamed/part_000): euclidean_distance, get_neighbours,             *)
(* get_response, get_accuracy and the classification cell that composes    *)
(* get_neighbours with get_response.                                        *)
(*                                                                         *)
(* Python lists and numpy rows are sequences (index l of the code is       *)
(* l + 1 here).  A call's outcome is a record [raised, value]: raised is   *)
(* "none" for a normal return and the name of the Python exception         *)
(* otherwise.  Floats are fixed-point numbers with FloatScale units per    *)
(* 1.0, rounded down: math.sqrt and the float division keep their          *)
(* rounding, so a result is compared with the exact value through the      *)
(* rounding interval, never as the identity.                               *)
(*                                                                         *)
(* Spec, SpecNeighbours and SpecClassify run one cell with one call;       *)
(* SpecSession runs the calls one after another on one training set, the   *)
(* names keeping their values between calls; SpecBatch classifies several  *)
(* test instances against one training set, their calls interleaved.       *)
(***************************************************************************)
EXTENDS Integers, Sequences, FiniteSets

\* ------------------------------------------------------------ bounds
MaxN == 3          \* most points in the reference set
MaxLen == 3        \* longest label sequence given to get_response / get_accuracy
FloatScale == 100  \* fixed-point units per 1.0

\* The vectors of the given lengths over the given coordinates.
VectorsOf(dims, coords) == UNION {[1..d -> coords] : d \in dims}

\* euclidean_distance's example: vectors of up to three dimensions.
DistanceVectors == VectorsOf({1, 2, 3}, {0, 1, 2})

\* Vectors of floats, in units: 0.0, the smallest positive float and 1.0.
FloatVectors == VectorsOf({1, 2}, {0, 1, FloatScale})

\* The training set: up to MaxN rows of one length, a label each; the test
\* instance may have another length.
Dims == {1, 2}
Coords == {0, 1}
TrainingLabels == {0, 1}
TestInstances == VectorsOf(Dims, Coords)
ReferenceSets ==
    UNION {[1..n -> [1..d -> Coords]] \X [1..n -> TrainingLabels] :
              n \in 0..MaxN, d \in Dims}
\* The training sets and test instances the notebook itself uses: the example
\* of get_neighbours (part_000:513-517) and the exercise (part_000:645-647).
NotebookTraining ==
    {<< <<(<<2, 2, 2>>), (<<4, 4, 4>>)>>, <<0, 1>>, <<5, 5, 5>> >>,
     << <<(<<1, 1, 1>>), (<<1, 3, 5>>), (<<7, 5, 4>>), (<<9, 5, 3>>)>>,
        <<1, 2, 1, 2>>, <<4, 4, 4>> >>}
MaxK == MaxN + 1
KValues == (0 - 2)..MaxK

\* get_response's and get_accuracy's examples: label sequences.
Labels == {0, 1, 2}
LabelSeqs == UNION {[1..n -> Labels] : n \in 0..MaxLen}

NoValue == 0 - 1
NoNeighbours == [data |-> <<>>, labels |-> <<>>]

Min(a, b) == IF a <= b THEN a ELSE b
Max(a, b) == IF a >= b THEN a ELSE b

\* A call's outcome: a normal return of v, or exception e (v then is a placeholder).
Return(v) == [raised |-> "none", value |-> v]
Raise(e, v) == [raised |-> e, value |-> v]

\* The call the traceback of outcome r names: f when r is an exception.
RaisedIn(r, f) == IF r.raised # "none" THEN f ELSE "none"

\* ------------------------------------------------------------ floats
\* Largest r with r * r <= x, by bisection on lo..hi (lo * lo <= x < (hi+1)^2).
RECURSIVE ISqrt(_, _, _)
ISqrt(x, lo, hi) ==
    IF lo >= hi THEN lo
    ELSE LET mid == (lo + hi + 1) \div 2
         IN IF mid * mid <= x THEN ISqrt(x, mid, hi) ELSE ISqrt(x, lo, mid - 1)

\* math.sqrt(x) of an exact integer x >= 0, as a fixed-point float.
math_sqrt(x) == ISqrt(x * FloatScale * FloatScale, 0, (x + 1) * FloatScale)

\* float(a) / float(b), b # 0, as a fixed-point float.
float_div(a, b) == (a * FloatScale) \div b

\* Float operands: a float x is the whole number of units it holds, one unit
\* being the smallest positive float.  x ** 2 is rounded down to whole units:
\* the square of a float too small for its square to reach one unit underflows
\* to 0.0, as (1e-200) ** 2 does in double precision.
float_square(x) == (x * x) \div FloatScale

\* math.sqrt(x) of a float x >= 0.
float_sqrt(x) == ISqrt(x * FloatScale, 0, x + FloatScale)

\* ------------------------------------------------------------ euclidean_distance
\* Faulty variant: the difference is not squared, and math.sqrt of a negative
\* sum raises ValueError.
RECURSIVE euclidean_loop_unsquared(_, _, _, _)
euclidean_loop_unsquared(instance1, instance2, l, distance) ==
    IF l > Len(instance1)
    THEN IF distance < 0 THEN Raise("ValueError", NoValue) ELSE Return(math_sqrt(distance))
    ELSE IF l > Len(instance2) THEN Raise("IndexError", NoValue)
    ELSE euclidean_loop_unsquared(instance1, instance2, l + 1,
                                  distance + (instance1[l] - instance2[l]))

\* The loop `for l in range(length)` from index l on, `distance` accumulated
\* so far; instance2[l] past the end of instance2 raises IndexError.
RECURSIVE euclidean_loop(_, _, _, _)
euclidean_loop(instance1, instance2, l, distance) ==
    IF l > Len(instance1) THEN Return(math_sqrt(distance))
    ELSE IF l > Len(instance2) THEN Raise("IndexError", NoValue)
    ELSE euclidean_loop(instance1, instance2, l + 1,
                        distance + (instance1[l] - instance2[l]) * (instance1[l] - instance2[l]))

\* Faulty variant: the loop stops one dimension early (range(length - 1)).
euclidean_distance_short(instance1, instance2) ==
    IF Len(instance1) = 0 THEN Return(math_sqrt(0))
    ELSE euclidean_loop(SubSeq(instance1, 1, Len(instance1) - 1), instance2, 1, 0)

euclidean_distance(instance1, instance2) == euclidean_loop(instance1, instance2, 1, 0)

\* The same loop on lists of floats: the subtraction and the sum are exact on
\* the floats of the model, the square and the root are rounded.
RECURSIVE euclidean_loop_float(_, _, _, _)
euclidean_loop_float(instance1, instance2, l, distance) ==
    IF l > Len(instance1) THEN Return(float_sqrt(distance))
    ELSE IF l > Len(instance2) THEN Raise("IndexError", NoValue)
    ELSE euclidean_loop_float(instance1, instance2, l + 1,
                              distance + float_square(instance1[l] - instance2[l]))

\* Faulty variant on floats: the loop stops one dimension early.
euclidean_distance_float_short(instance1, instance2) ==
    IF Len(instance1) = 0 THEN Return(float_sqrt(0))
    ELSE euclidean_loop_float(SubSeq(instance1, 1, Len(instance1) - 1), instance2, 1, 0)

euclidean_distance_float(instance1, instance2) ==
    euclidean_loop_float(instance1, instance2, 1, 0)

\* ------------------------------------------------------------ get_neighbours
\* The loop `for i in range(len(data))` from row i on: distances holds the
\* [row, dist] pairs appended so far; an exception of euclidean_distance
\* leaves the loop and the function.
RECURSIVE distances_loop(_, _, _, _)
distances_loop(data, test_instance, i, distances) ==
    IF i > Len(data) THEN Return(distances)
    ELSE LET dist == euclidean_distance(test_instance, data[i])
         IN IF dist.raised # "none" THEN Raise(dist.raised, <<>>)
            ELSE distances_loop(data, test_instance, i + 1,
                                Append(distances, <<data[i], dist.value>>))

\* np.array(distances)[:, 1]: the column of distances.  An empty list makes a
\* one-dimensional array of shape (0,), and indexing it with [:, 1] raises
\* IndexError (too many indices).
column_1(distances) ==
    IF Len(distances) = 0 THEN Raise("IndexError", <<>>)
    ELSE Return([i \in 1..Len(distances) |-> distances[i][2]])

\* The interpreter and the numpy that run the notebook.  They decide what the
\* code leaves open: ties is the order in which np.argsort returns elements of
\* equal value (a rank for every index; <<>> when the build is not known, and
\* then any order), dict the iteration order of a dict ("hash", "insertion",
\* or "any" when not known).
VARIABLE build

AnyBuild == [ties |-> <<>>, dict |-> "any"]

\* The index orders of n elements.
AllPermutations ==
    [n \in 0..(MaxN + 1) |->
        {p \in [1..n -> 1..n] : \A i, j \in 1..n : p[i] = p[j] => i = j}]
Permutations(n) == AllPermutations[n]

\* Faulty variant: no sorting at all (the indices in their original order).
argsort_unsorted(a) == {[i \in 1..Len(a) |-> i]}

\* Faulty variant: a sort that picks its pivots at random, so that elements of
\* equal value come in any order, another one at every call.
argsort_random_pivot(a) ==
    {idx \in Permutations(Len(a)) :
        \A i, j \in 1..Len(a) : i < j => a[idx[i]] <= a[idx[j]]}

\* np.argsort(a) with the default kind ("quicksort", not a stable sort): an
\* index order that sorts a ascending.  The order of elements of equal value
\* is the build's: the algorithm has no random choice, so one build returns
\* one order for one array.
argsort(a) ==
    {idx \in Permutations(Len(a)) :
        \A i, j \in 1..Len(a) :
            i < j => \/ a[idx[i]] < a[idx[j]]
                     \/ /\ a[idx[i]] = a[idx[j]]
                        /\ build.ties # <<>> => build.ties[idx[i]] < build.ties[idx[j]]}

\* arr[idx] with an index array: the elements of arr in the order of idx.
fancy_index(arr, idx) == [i \in 1..Len(idx) |-> arr[idx[i]]]

\* Faulty variant: the labels are not reordered with the data.
neighbours_label_unsorted(labels, idx) == labels

\* neighbours_label = labels[idx]
neighbours_label(labels, idx) == fancy_index(labels, idx)

\* Faulty variant: a negative K is taken as 0.
slice_clamped(seq, K) == SubSeq(seq, 1, Min(Max(K, 0), Len(seq)))

\* Faulty variant: seq[-K:], the last K elements (K >= 1).
slice_from_end(seq, K) ==
    IF K >= 1 THEN SubSeq(seq, Max(Len(seq) - K, 0) + 1, Len(seq)) ELSE <<>>

\* seq[:K]: the first K elements, all of them when K > len(seq); a negative K
\* counts from the end (the first len(seq) + K elements).
slice_upto(seq, K) ==
    IF K >= 0 THEN SubSeq(seq, 1, Min(K, Len(seq)))
    ELSE SubSeq(seq, 1, Max(Len(seq) + K, 0))

\* The outcomes of get_neighbours(data, labels, test_instance, K): one per
\* index order argsort may return.
get_neighbours(data, labels, test_instance, K) ==
    LET distances == distances_loop(data, test_instance, 1, <<>>)
        column == column_1(distances.value)
    IN IF distances.raised # "none" THEN {Raise(distances.raised, NoNeighbours)}
       ELSE IF column.raised # "none" THEN {Raise(column.raised, NoNeighbours)}
       ELSE IF Len(labels) < Len(data) THEN {Raise("IndexError", NoNeighbours)}
       ELSE {Return([data |-> slice_upto(fancy_index(data, idx), K),
                     labels |-> slice_upto(neighbours_label(labels, idx), K)]) :
                idx \in argsort(column.value)}

\* ------------------------------------------------------------ get_response
\* Faulty variant: a label seen again is set to 1, not counted up.
RECURSIVE votes_loop_uncounted(_, _, _)
votes_loop_uncounted(neighbours, i, class_votes) ==
    IF i > Len(neighbours) THEN class_votes
    ELSE LET response == neighbours[i]
         IN votes_loop_uncounted(neighbours, i + 1,
                IF response \in DOMAIN class_votes.count
                THEN [class_votes EXCEPT !.count[response] = 1]
                ELSE [keys |-> Append(class_votes.keys, response),
                      count |-> [k \in DOMAIN class_votes.count \cup {response} |->
                                    IF k = response THEN 1 ELSE class_votes.count[k]]])

\* The loop `for i in range(len(neighbours))` from index i on; class_votes is
\* the dict so far: its keys in the order of their insertion, and their counts.
RECURSIVE votes_loop(_, _, _)
votes_loop(neighbours, i, class_votes) ==
    IF i > Len(neighbours) THEN class_votes
    ELSE LET response == neighbours[i]
         IN votes_loop(neighbours, i + 1,
                IF response \in DOMAIN class_votes.count
                THEN [class_votes EXCEPT !.count[response] = @ + 1]
                ELSE [keys |-> Append(class_votes.keys, response),
                      count |-> [k \in DOMAIN class_votes.count \cup {response} |->
                                    IF k = response THEN 1 ELSE class_votes.count[k]]])

\* The keys in ascending order.
RECURSIVE ascending(_)
ascending(keys) ==
    IF keys = {} THEN <<>>
    ELSE LET least == CHOOSE k \in keys : \A other \in keys : k <= other
         IN <<least>> \o ascending(keys \ {least})

\* class_votes.items(): the (label, count) pairs in the dict's iteration order,
\* which the interpreter decides.  The notebook's kernel is Python 3.5
\* (part_000:743), whose dicts iterate in hash-table order: the labels, small
\* non-negative integers that hash to themselves, in ascending order.  From
\* Python 3.6 on a dict iterates in insertion order.
dict_items(class_votes) ==
    {[i \in 1..Len(order) |-> <<order[i], class_votes.count[order[i]]>>] :
        order \in IF build.dict = "hash" THEN {ascending(DOMAIN class_votes.count)}
                  ELSE IF build.dict = "insertion" THEN {class_votes.keys}
                  ELSE {ascending(DOMAIN class_votes.count), class_votes.keys}}

\* Faulty variant: reverse=True is missing (ascending by count).
RECURSIVE sorted_ascending(_, _, _)
sorted_ascending(items, i, out) ==
    IF i > Len(items) THEN out
    ELSE LET pos == Cardinality({j \in 1..Len(out) : out[j][2] <= items[i][2]})
         IN sorted_ascending(items, i + 1,
                SubSeq(out, 1, pos) \o <<items[i]>> \o SubSeq(out, pos + 1, Len(out)))

\* sorted(items, key=operator.itemgetter(1), reverse=True): Python's sort is
\* stable, also with reverse=True, so pairs of equal count keep the order they
\* have in items.  Item i is inserted behind every pair already placed whose
\* count is at least its own.
RECURSIVE sorted_reverse(_, _, _)
sorted_reverse(items, i, out) ==
    IF i > Len(items) THEN out
    ELSE LET pos == Cardinality({j \in 1..Len(out) : out[j][2] >= items[i][2]})
         IN sorted_reverse(items, i + 1,
                SubSeq(out, 1, pos) \o <<items[i]>> \o SubSeq(out, pos + 1, Len(out)))

\* Faulty variant: an empty list of votes gives None instead of an exception
\* (the first of the sorted votes is looked up only when there is one).
get_response_or_none(neighbours) ==
    LET class_votes == votes_loop(neighbours, 1, [keys |-> <<>>, count |-> <<>>])
    IN IF class_votes.keys = <<>> THEN {Return(NoValue)}
       ELSE {Return(sorted_reverse(items, 1, <<>>)[1][1]) : items \in dict_items(class_votes)}

\* The outcomes of get_response(neighbours), one per iteration order of the
\* dict; sorted_votes[0] of an empty list raises IndexError.
get_response(neighbours) ==
    LET class_votes == votes_loop(neighbours, 1, [keys |-> <<>>, count |-> <<>>])
    IN IF class_votes.keys = <<>> THEN {Raise("IndexError", NoValue)}
       ELSE {Return(sorted_reverse(items, 1, <<>>)[1][1]) : items \in dict_items(class_votes)}

\* ------------------------------------------------------------ get_accuracy
\* Faulty variant: the fraction is returned, not the percentage.
to_fraction(fraction) == fraction

\* (...) * 100.0
to_percent(fraction) == fraction * 100

\* The loop `for i in range(len(test_set))` from index i on, then the return:
\* predictions[i] past the end raises IndexError, and float division by
\* float(len(test_set)) = 0.0 raises ZeroDivisionError.
RECURSIVE accuracy_loop(_, _, _, _)
accuracy_loop(test_set, predictions, i, correct) ==
    IF i > Len(test_set)
    THEN IF Len(test_set) = 0 THEN Raise("ZeroDivisionError", NoValue)
         ELSE Return(to_percent(float_div(correct, Len(test_set))))
    ELSE IF i > Len(predictions) THEN Raise("IndexError", NoValue)
    ELSE accuracy_loop(test_set, predictions, i + 1,
                       IF test_set[i] = predictions[i] THEN correct + 1 ELSE correct)

get_accuracy(test_set, predictions) == accuracy_loop(test_set, predictions, 1, 0)

\* ------------------------------------------------------------ classify
\* The answer cell: neighbours = get_neighbours(...), then
\* label = get_response(neighbours['labels']).  An exception of the first
\* statement ends the cell.  An outcome is [raised, raised_in, neighbours,
\* label], raised_in the call of the cell that raised the exception.
classify(data, labels, test_instance, K) ==
    UNION {IF n.raised # "none"
           THEN {[raised |-> n.raised, raised_in |-> "get_neighbours",
                  neighbours |-> NoNeighbours, label |-> NoValue]}
           ELSE {[raised |-> r.raised,
                  raised_in |-> RaisedIn(r, "get_response"),
                  neighbours |-> n.value, label |-> r.value] :
                    r \in get_response(n.value.labels)} :
           n \in get_neighbours(data, labels, test_instance, K)}

\* ------------------------------------------------------------ the notebook
\* A behaviour is one cell of the notebook: the inputs the cell binds (a name
\* it does not bind is the empty list), then the cell's call on them with its
\* outcome.
VARIABLES
    cell,                         \* the cell that is run
    data1, data2,                 \* euclidean_distance's example (part_000:458-459)
    data, labels, test_instance,  \* the training set and the test instance
    votes,                        \* neighbours['labels'] of get_response's example
    test_set, predictions,        \* get_accuracy's example
    op,                           \* the function called last
    K,                            \* its K, 0 when it takes none
    raised,                       \* the exception it raised, or "none"
    raised_in,                    \* the call in which it was raised, or "none"
    distance, neighbours, response, accuracy,  \* what it returned
    found,                        \* per K, what get_neighbours returned: first and latest call
    batch,                        \* the queries classified as a batch, and how far each is
    elbow                         \* the names of the k-means notebook's elbow loop

inputs == <<data1, data2, data, labels, test_instance, votes, test_set, predictions>>
vars == <<cell, build, data1, data2, data, labels, test_instance, votes, test_set, predictions,
          op, K, raised, raised_in, distance, neighbours, response, accuracy, found, batch, elbow>>

\* A session of calls: training sets of up to two rows, and K of 1 and 2.
SessionReferenceSets ==
    UNION {[1..n -> [1..d -> Coords]] \X [1..n -> TrainingLabels] :
              n \in {0, 1, 2}, d \in {1}}
SessionK == {1, 2}
Builds == [ties : Permutations(2), dict : {"hash", "insertion"}]
NoneFound == [k \in SessionK |-> <<>>]

\* The elbow loop of the k-means notebook (src/Kmeans_clustering.ipynb:557-575).
\* It runs K over range(1, 10); here over range(1, MaxClusters + 1).
MaxClusters == 2
\* range(3): the number of coordinates the distance loop visits.
DistanceColumns == 3
\* X_scaled: three rows of four columns of floats (0.0 or 1.0, in units); the
\* rows differ in the first and in the last column only.
ElbowPoints == {<<0, 0, 0, 0>>, <<FloatScale, 0, 0, 0>>, <<0, 0, 0, FloatScale>>}
ElbowData == [1..3 -> ElbowPoints]

NoElbow == [pc |-> "none", X_scaled |-> <<>>, K |-> 0, j |-> 0,
            labels |-> <<>>, centroids |-> <<>>,
            euclidean_distances |-> <<>>, cluster_averaged_distances |-> <<>>,
            computed_for |-> <<>>, written |-> <<>>]

NoBatch == [K |-> 0, queries |-> <<>>, pc |-> <<>>,
            neighbours |-> <<>>, label |-> <<>>, raised |-> <<>>]

NoCall ==
    /\ found = NoneFound
    /\ op = "none" /\ K = 0 /\ raised = "none" /\ raised_in = "none"
    /\ distance = NoValue /\ neighbours = NoNeighbours
    /\ response = NoValue /\ accuracy = NoValue

InitDistance ==
    /\ cell = "euclidean_distance"
    /\ data1 \in DistanceVectors /\ data2 \in DistanceVectors
    /\ data = <<>> /\ labels = <<>> /\ test_instance = <<>>
    /\ votes = <<>> /\ test_set = <<>> /\ predictions = <<>>

\* The same cell with lists of floats.
InitDistanceFloat ==
    /\ cell = "euclidean_distance (floats)"
    /\ data1 \in FloatVectors /\ data2 \in FloatVectors
    /\ data = <<>> /\ labels = <<>> /\ test_instance = <<>>
    /\ votes = <<>> /\ test_set = <<>> /\ predictions = <<>>

InitResponse ==
    /\ cell = "get_response"
    /\ votes \in LabelSeqs
    /\ data1 = <<>> /\ data2 = <<>>
    /\ data = <<>> /\ labels = <<>> /\ test_instance = <<>>
    /\ test_set = <<>> /\ predictions = <<>>

InitAccuracy ==
    /\ cell = "get_accuracy"
    /\ test_set \in LabelSeqs /\ predictions \in LabelSeqs
    /\ data1 = <<>> /\ data2 = <<>>
    /\ data = <<>> /\ labels = <<>> /\ test_instance = <<>>
    /\ votes = <<>>

\* The training set and the test instance of get_neighbours's example and of
\* the exercise.
InitTraining ==
    /\ \/ /\ \E ref \in ReferenceSets : data = ref[1] /\ labels = ref[2]
          /\ test_instance \in TestInstances
       \/ \E t \in NotebookTraining :
             data = t[1] /\ labels = t[2] /\ test_instance = t[3]
    /\ data1 = <<>> /\ data2 = <<>>
    /\ votes = <<>> /\ test_set = <<>> /\ predictions = <<>>

\* distance = euclidean_distance(data1, data2)
CallEuclideanDistance ==
    /\ cell = "euclidean_distance" /\ op = "none"
    /\ LET r == euclidean_distance(data1, data2)
       IN /\ op' = "euclidean_distance" /\ K' = 0
          /\ raised' = r.raised /\ raised_in' = RaisedIn(r, "euclidean_distance")
          /\ distance' = r.value
          /\ neighbours' = NoNeighbours /\ response' = NoValue /\ accuracy' = NoValue
          /\ UNCHANGED <<cell, build, elbow, inputs, found, batch>>

\* distance = euclidean_distance(data1, data2), data1 and data2 lists of floats
CallEuclideanDistanceFloat ==
    /\ cell = "euclidean_distance (floats)" /\ op = "none"
    /\ LET r == euclidean_distance_float(data1, data2)
       IN /\ op' = "euclidean_distance (floats)" /\ K' = 0
          /\ raised' = r.raised /\ raised_in' = RaisedIn(r, "euclidean_distance")
          /\ distance' = r.value
          /\ neighbours' = NoNeighbours /\ response' = NoValue /\ accuracy' = NoValue
          /\ UNCHANGED <<cell, build, elbow, inputs, found, batch>>

\* response = get_response(neighbours['labels'])
CallGetResponse ==
    /\ cell = "get_response" /\ op = "none"
    /\ \E r \in get_response(votes) :
        /\ op' = "get_response" /\ K' = 0
        /\ raised' = r.raised /\ raised_in' = RaisedIn(r, "get_response")
        /\ response' = r.value
        /\ distance' = NoValue /\ neighbours' = NoNeighbours /\ accuracy' = NoValue
        /\ UNCHANGED <<cell, build, elbow, inputs, found, batch>>

\* accuracy = get_accuracy(test_set, predictions)
CallGetAccuracy ==
    /\ cell = "get_accuracy" /\ op = "none"
    /\ LET r == get_accuracy(test_set, predictions)
       IN /\ op' = "get_accuracy" /\ K' = 0
          /\ raised' = r.raised /\ raised_in' = RaisedIn(r, "get_accuracy")
          /\ accuracy' = r.value
          /\ distance' = NoValue /\ neighbours' = NoNeighbours /\ response' = NoValue
          /\ UNCHANGED <<cell, build, elbow, inputs, found, batch>>

\* neighbours = get_neighbours(data, labels, test_instance, K)
CallGetNeighbours ==
    /\ cell = "get_neighbours" /\ op = "none"
    /\ \E k \in KValues : \E r \in get_neighbours(data, labels, test_instance, k) :
        /\ op' = "get_neighbours" /\ K' = k
        /\ raised' = r.raised /\ raised_in' = RaisedIn(r, "get_neighbours")
        /\ neighbours' = r.value
        /\ distance' = NoValue /\ response' = NoValue /\ accuracy' = NoValue
        /\ UNCHANGED <<cell, build, elbow, inputs, found, batch>>

\* The answer cell of the exercise: get_neighbours, then get_response.
CallClassify ==
    /\ cell = "classify" /\ op = "none"
    /\ \E k \in 1..MaxK : \E r \in classify(data, labels, test_instance, k) :
        /\ op' = "classify" /\ K' = k
        /\ raised' = r.raised /\ raised_in' = r.raised_in
        /\ neighbours' = r.neighbours /\ response' = r.label
        /\ distance' = NoValue /\ accuracy' = NoValue
        /\ UNCHANGED <<cell, build, elbow, inputs, found, batch>>

\* ------------------------------------------------------------ a session
\* A session runs the calls one after another, any number of times in any
\* order, on one training set and one test instance.  A name keeps its value
\* until a call that returns binds it again; a call that raises binds nothing.
InitSession ==
    /\ cell = "session" /\ build \in Builds
    /\ \E ref \in SessionReferenceSets : data = ref[1] /\ labels = ref[2]
    /\ test_instance \in TestInstances
    /\ data1 = test_instance /\ data2 = (IF data = <<>> THEN <<>> ELSE data[1])
    /\ votes = labels
    /\ test_set = labels /\ predictions = [i \in 1..Len(labels) |-> labels[1]]
    /\ batch = NoBatch /\ elbow = NoElbow /\ NoCall

\* distance = euclidean_distance(data1, data2)
SessionEuclideanDistance ==
    /\ cell = "session"
    /\ LET r == euclidean_distance(data1, data2)
       IN /\ op' = "euclidean_distance" /\ K' = 0
          /\ raised' = r.raised /\ raised_in' = RaisedIn(r, "euclidean_distance")
          /\ distance' = (IF r.raised = "none" THEN r.value ELSE distance)
          /\ UNCHANGED <<cell, build, elbow, inputs, found, batch, neighbours, response, accuracy>>

\* response = get_response(neighbours['labels'])
SessionGetResponse ==
    /\ cell = "session"
    /\ \E r \in get_response(votes) :
        /\ op' = "get_response" /\ K' = 0
        /\ raised' = r.raised /\ raised_in' = RaisedIn(r, "get_response")
        /\ response' = (IF r.raised = "none" THEN r.value ELSE response)
        /\ UNCHANGED <<cell, build, elbow, inputs, found, batch, distance, neighbours, accuracy>>

\* Faulty variant: the score is bound to 0.0 when the call raises.
SessionGetAccuracyPartial ==
    /\ cell = "session"
    /\ LET r == get_accuracy(test_set, predictions)
       IN /\ op' = "get_accuracy" /\ K' = 0
          /\ raised' = r.raised /\ raised_in' = RaisedIn(r, "get_accuracy")
          /\ accuracy' = (IF r.raised = "none" THEN r.value ELSE 0)
          /\ UNCHANGED <<cell, build, elbow, inputs, found, batch, distance, neighbours, response>>

\* accuracy = get_accuracy(test_set, predictions)
SessionGetAccuracy ==
    /\ cell = "session"
    /\ LET r == get_accuracy(test_set, predictions)
       IN /\ op' = "get_accuracy" /\ K' = 0
          /\ raised' = r.raised /\ raised_in' = RaisedIn(r, "get_accuracy")
          /\ accuracy' = (IF r.raised = "none" THEN r.value ELSE accuracy)
          /\ UNCHANGED <<cell, build, elbow, inputs, found, batch, distance, neighbours, response>>

\* Faulty variant: the training set is left sorted by distance (data and
\* labels are reordered in place, not copied).
SessionGetNeighboursInPlace ==
    /\ cell = "session"
    /\ \E k \in SessionK : \E r \in get_neighbours(data, labels, test_instance, k) :
        /\ op' = "get_neighbours" /\ K' = k
        /\ raised' = r.raised /\ raised_in' = RaisedIn(r, "get_neighbours")
        /\ neighbours' = (IF r.raised = "none" THEN r.value ELSE neighbours)
        /\ found' = [found EXCEPT ![k] = IF @ = <<>> THEN <<r>> ELSE <<@[1], r>>]
        /\ \E all \in get_neighbours(data, labels, test_instance, Len(data)) :
                /\ data' = (IF r.raised = "none" THEN all.value.data ELSE data)
                /\ labels' = (IF r.raised = "none" THEN all.value.labels ELSE labels)
        /\ UNCHANGED <<cell, build, elbow, data1, data2, test_instance, votes, test_set,
                       predictions, batch, distance, response, accuracy>>

\* neighbours = get_neighbours(data, labels, test_instance, K)
SessionGetNeighbours ==
    /\ cell = "session"
    /\ \E k \in SessionK : \E r \in get_neighbours(data, labels, test_instance, k) :
        /\ op' = "get_neighbours" /\ K' = k
        /\ raised' = r.raised /\ raised_in' = RaisedIn(r, "get_neighbours")
        /\ neighbours' = (IF r.raised = "none" THEN r.value ELSE neighbours)
        /\ found' = [found EXCEPT ![k] = IF @ = <<>> THEN <<r>> ELSE <<@[1], r>>]
        /\ UNCHANGED <<cell, build, elbow, inputs, batch, distance, response, accuracy>>

\* The answer cell of the exercise: neighbours is bound when get_neighbours
\* returns, label when get_response returns too.
SessionClassify ==
    /\ cell = "session"
    /\ \E k \in SessionK : \E r \in classify(data, labels, test_instance, k) :
        /\ op' = "classify" /\ K' = k
        /\ raised' = r.raised /\ raised_in' = r.raised_in
        /\ neighbours' = (IF r.raised_in = "get_neighbours" THEN neighbours ELSE r.neighbours)
        /\ response' = (IF r.raised = "none" THEN r.label ELSE response)
        /\ UNCHANGED <<cell, build, elbow, inputs, found, batch, distance, accuracy>>

NextSession ==
    \/ SessionEuclideanDistance
    \/ SessionGetNeighbours
    \/ SessionGetResponse
    \/ SessionClassify
    \/ SessionGetAccuracy

SpecSession == InitSession /\ [][NextSession]_vars

\* ------------------------------------------------------------ a batch
\* A batch classifies one or two test instances against one training set with
\* one K.  Every query runs the two calls of the answer cell with names of its
\* own, and the calls of different queries come in any order: a query may run
\* between the two calls of another.  pc[i] is the call query i makes next.
BatchQueries == UNION {[1..m -> TestInstances] : m \in {1, 2}}

InitBatch ==
    /\ cell = "batch" /\ build \in Builds
    /\ \E ref \in SessionReferenceSets : data = ref[1] /\ labels = ref[2]
    /\ test_instance = <<>> /\ data1 = <<>> /\ data2 = <<>>
    /\ votes = <<>> /\ test_set = <<>> /\ predictions = <<>>
    /\ \E k \in SessionK : \E queries \in BatchQueries :
          batch = [K |-> k, queries |-> queries,
                   pc |-> [i \in DOMAIN queries |-> "get_neighbours"],
                   neighbours |-> [i \in DOMAIN queries |-> NoNeighbours],
                   label |-> [i \in DOMAIN queries |-> NoValue],
                   raised |-> [i \in DOMAIN queries |-> "none"]]
    /\ elbow = NoElbow /\ NoCall

\* Faulty variant: the queries share one name for the neighbours (the global
\* of the answer cell), so a query's neighbours replace every other query's.
BatchGetNeighboursShared ==
    /\ cell = "batch"
    /\ \E i \in DOMAIN batch.queries :
        /\ batch.pc[i] = "get_neighbours"
        /\ \E r \in get_neighbours(data, labels, batch.queries[i], batch.K) :
              batch' = [batch EXCEPT
                            !.pc[i] = IF r.raised = "none" THEN "get_response" ELSE "raised",
                            !.raised[i] = r.raised,
                            !.neighbours = [j \in DOMAIN batch.queries |-> r.value]]
    /\ UNCHANGED <<cell, build, elbow, inputs, found, op, K, raised, raised_in,
                   distance, neighbours, response, accuracy>>

\* Query i: neighbours = get_neighbours(training_set, training_labels, test_instance, K)
BatchGetNeighbours ==
    /\ cell = "batch"
    /\ \E i \in DOMAIN batch.queries :
        /\ batch.pc[i] = "get_neighbours"
        /\ \E r \in get_neighbours(data, labels, batch.queries[i], batch.K) :
              batch' = [batch EXCEPT
                            !.pc[i] = IF r.raised = "none" THEN "get_response" ELSE "raised",
                            !.raised[i] = r.raised,
                            !.neighbours[i] = r.value]
    /\ UNCHANGED <<cell, build, elbow, inputs, found, op, K, raised, raised_in,
                   distance, neighbours, response, accuracy>>

\* Query i: label = get_response(neighbours['labels'])
BatchGetResponse ==
    /\ cell = "batch"
    /\ \E i \in DOMAIN batch.queries :
        /\ batch.pc[i] = "get_response"
        /\ \E r \in get_response(batch.neighbours[i].labels) :
              batch' = [batch EXCEPT
                            !.pc[i] = IF r.raised = "none" THEN "done" ELSE "raised",
                            !.raised[i] = r.raised,
                            !.label[i] = r.value]
    /\ UNCHANGED <<cell, build, elbow, inputs, found, op, K, raised, raised_in,
                   distance, neighbours, response, accuracy>>

NextBatch == BatchGetNeighbours \/ BatchGetResponse

SpecBatch == InitBatch /\ [][NextBatch]_vars

\* ------------------------------------------------------------ the elbow loop
\* The sum of the squared differences of x and c over the given columns, and
\* the Euclidean distance over them.
RECURSIVE squares_loop(_, _, _, _, _)
squares_loop(x, c, k, columns, total) ==
    IF k > columns THEN total
    ELSE squares_loop(x, c, k + 1, columns, total + float_square(x[k] - c[k]))

\* clf.fit(X_scaled): K cluster centres.  Which centres k-means++ and Lloyd's
\* iterations end with depends on a random initialisation; any K points are
\* taken as possible.
KMeans_fit(X_scaled, n_clusters) == [1..n_clusters -> ElbowPoints]

\* clf.predict(X_scaled): for every row the index of the closest centre, over
\* all columns, the lowest index among equally close ones.
KMeans_predict(cluster_centers, X_scaled) ==
    [j \in 1..Len(X_scaled) |->
        CHOOSE c \in 1..Len(cluster_centers) :
            \A other \in 1..Len(cluster_centers) :
                LET dc == squares_loop(X_scaled[j], cluster_centers[c], 1, Len(X_scaled[j]), 0)
                    do == squares_loop(X_scaled[j], cluster_centers[other], 1,
                                       Len(X_scaled[j]), 0)
                IN dc < do \/ (dc = do /\ c <= other)]

\* Faulty variant: the entry is not set to 0 before the sum.
keep_entry(old) == old

\* euclidean_distances[j] = 0
reset_entry(old) == 0

\* The body of `for j in range(len(X_scaled))` for one j: the new value of
\* euclidean_distances[j], old being the value the entry holds.
point_distance(old, x, c) ==
    float_sqrt(squares_loop(x, c, 1, DistanceColumns, reset_entry(old)))

\* np.mean(euclidean_distances)
RECURSIVE np_sum(_, _)
np_sum(a, i) == IF i > Len(a) THEN 0 ELSE a[i] + np_sum(a, i + 1)
np_mean(a) == np_sum(a, 1) \div Len(a)

\* The three assignments before the loop.
InitElbow ==
    /\ cell = "elbow" /\ build = AnyBuild
    /\ data1 = <<>> /\ data2 = <<>>
    /\ data = <<>> /\ labels = <<>> /\ test_instance = <<>>
    /\ votes = <<>> /\ test_set = <<>> /\ predictions = <<>>
    /\ batch = NoBatch /\ NoCall
    /\ \E X \in ElbowData :
          elbow = [pc |-> "for K", X_scaled |-> X, K |-> 0, j |-> 0,
                   labels |-> <<>>, centroids |-> <<>>,
                   euclidean_distances |-> [j \in 1..Len(X) |-> 0],
                   cluster_averaged_distances |-> [i \in 1..MaxClusters |-> 0],
                   computed_for |-> [j \in 1..Len(X) |-> 0],
                   written |-> [i \in 1..MaxClusters |-> 0]]

\* for K in range(1, 10): the next K, then fit, predict and the centroids.
ElbowFit ==
    /\ cell = "elbow" /\ elbow.pc = "for K" /\ elbow.K < MaxClusters
    /\ \E cluster_centers \in KMeans_fit(elbow.X_scaled, elbow.K + 1) :
          elbow' = [elbow EXCEPT !.pc = "for j", !.K = @ + 1, !.j = 0,
                                 !.labels = KMeans_predict(cluster_centers, elbow.X_scaled),
                                 !.centroids = cluster_centers]
    /\ UNCHANGED <<cell, build, inputs, found, batch, op, K, raised, raised_in,
                   distance, neighbours, response, accuracy>>

\* for j in range(len(X_scaled)): the body for the next j.  computed_for[j]
\* notes the K the entry was computed in.
ElbowDistance ==
    /\ cell = "elbow" /\ elbow.pc = "for j" /\ elbow.j < Len(elbow.X_scaled)
    /\ LET j == elbow.j + 1
           cluster == elbow.labels[j]
       IN elbow' = [elbow EXCEPT
                        !.j = j,
                        !.euclidean_distances[j] =
                            point_distance(@, elbow.X_scaled[j], elbow.centroids[cluster]),
                        !.computed_for[j] = elbow.K]
    /\ UNCHANGED <<cell, build, inputs, found, batch, op, K, raised, raised_in,
                   distance, neighbours, response, accuracy>>

\* cluster_averaged_distances[K - 1] = np.mean(euclidean_distances); written
\* counts the assignments to the entry.
ElbowMean ==
    /\ cell = "elbow" /\ elbow.pc = "for j" /\ elbow.j = Len(elbow.X_scaled)
    /\ elbow' = [elbow EXCEPT
                    !.pc = IF elbow.K < MaxClusters THEN "for K" ELSE "plot",
                    !.cluster_averaged_distances[elbow.K] = np_mean(elbow.euclidean_distances),
                    !.written[elbow.K] = @ + 1]
    /\ UNCHANGED <<cell, build, inputs, found, batch, op, K, raised, raised_in,
                   distance, neighbours, response, accuracy>>

NextElbow == ElbowFit \/ ElbowDistance \/ ElbowMean

SpecElbow == InitElbow /\ [][NextElbow]_vars

\* ------------------------------------------------------------ one cell
\* The example cells of euclidean_distance, get_response and get_accuracy.
Init ==
    /\ InitDistance \/ InitDistanceFloat \/ InitResponse \/ InitAccuracy
    /\ build = AnyBuild /\ batch = NoBatch /\ elbow = NoElbow /\ NoCall

Next ==
    \/ CallEuclideanDistance
    \/ CallEuclideanDistanceFloat
    \/ CallGetResponse
    \/ CallGetAccuracy

Spec == Init /\ [][Next]_vars

\* The example cell of get_neighbours.
InitNeighbours ==
    cell = "get_neighbours" /\ build = AnyBuild /\ batch = NoBatch /\ elbow = NoElbow /\ InitTraining /\ NoCall

SpecNeighbours == InitNeighbours /\ [][CallGetNeighbours]_vars

\* The exercise.
InitClassify ==
    cell = "classify" /\ build = AnyBuild /\ batch = NoBatch /\ elbow = NoElbow /\ InitTraining /\ NoCall

SpecClassify == InitClassify /\ [][CallClassify]_vars

\* ------------------------------------------------------------ properties
\* The exact squared Euclidean distance of two vectors of one length.
RECURSIVE SumOfSquares(_, _, _)
SumOfSquares(a, b, dims) ==
    IF dims = {} THEN 0
    ELSE LET d == CHOOSE x \in dims : TRUE
         IN (a[d] - b[d]) * (a[d] - b[d]) + SumOfSquares(a, b, dims \ {d})
SquaredDistance(a, b) == SumOfSquares(a, b, DOMAIN a)

\* f is the float nearest below the square root of the exact number x.
IsRootOf(f, x) ==
    /\ f >= 0
    /\ f * f <= x * FloatScale * FloatScale
    /\ x * FloatScale * FloatScale < (f + 1) * (f + 1)

\* The outcome of the notebook's example (part_000:458-460).
ExampleDistance == euclidean_distance(<<0, 1, 2>>, <<0, 2, 4>>)

\* C2: for vectors a and b of equal length, distance(a, b) is the Euclidean
\* distance: a non-negative value whose square is the sum over every dimension
\* of (a[i] - b[i])^2; for a = [0,1,2], b = [0,2,4] the squared distance is 5.
C2_DistanceIsEuclidean ==
    /\ (op = "euclidean_distance" /\ Len(data1) = Len(data2)) =>
            /\ raised = "none"
            /\ IsRootOf(distance, SquaredDistance(data1, data2))
    /\ ExampleDistance.raised = "none" /\ IsRootOf(ExampleDistance.value, 5)

\* A distance over three dimensions whose square is 5, as in the example.
C2_Witness ==
    /\ op = "euclidean_distance" /\ raised = "none"
    /\ data1 = <<0, 1, 2>> /\ data2 = <<0, 2, 0>>
    /\ IsRootOf(distance, 5) /\ distance > 2 * FloatScale

\* C3: for vectors a and b of different lengths, in either direction,
\* distance(a, b) fails with an error; it never returns a distance computed
\* over a prefix of the longer vector.
C3_MismatchAlwaysFails ==
    (op = "euclidean_distance" /\ Len(data1) # Len(data2)) => raised # "none"

\* The number of occurrences of label x in seq, and its first position.
Count(seq, x) == Cardinality({i \in 1..Len(seq) : seq[i] = x})
FirstIndex(seq, x) == CHOOSE i \in 1..Len(seq) : seq[i] = x /\ \A j \in 1..(i - 1) : seq[j] # x

\* The outcomes of the notebook's example (part_000:575-576).
ExampleResponse == get_response(<<1, 1, 0>>)

\* C7: for every non-empty sequence of labels, vote returns a label that
\* occurs in the sequence at least as often as every other label does;
\* vote([1,1,0]) = 1.
C7_VoteIsPlurality ==
    /\ (op = "get_response" /\ Len(votes) > 0) =>
            /\ raised = "none"
            /\ Count(votes, response) >= 1
            /\ \A l \in Labels : Count(votes, response) >= Count(votes, l)
    /\ ExampleResponse = {Return(1)}

\* The example: two 1s and one 0, and 1 wins.
C7_Witness ==
    /\ op = "get_response" /\ raised = "none"
    /\ votes = <<1, 1, 0>> /\ response = 1

\* C8: when several labels share the highest count, vote returns the one of
\* them whose first occurrence is earliest in the input.
C8_TieGoesToFirstSeen ==
    (op = "get_response" /\ raised = "none") =>
        \A l \in Labels :
            Count(votes, l) = Count(votes, response) =>
                FirstIndex(votes, response) <= FirstIndex(votes, l)

\* The number of positions where truth and predicted agree.
Matches(truth, predicted) ==
    Cardinality({i \in DOMAIN truth \cap DOMAIN predicted : truth[i] = predicted[i]})

\* The outcome of the notebook's example (part_000:620-625).
ExampleAccuracy == get_accuracy(<<"a", "a", "b">>, <<"a", "a", "a">>)

C10_LengthMismatchFails ==
    (op = "get_accuracy" /\ Len(test_set) # Len(predictions)) =>
        raised # "none" /\ accuracy = NoValue

\* Every training row has the length of the test instance.
SameDims == \A i \in 1..Len(data) : Len(data[i]) = Len(test_instance)

\* C4: the neighbours find returns are ordered by non-decreasing distance to
\* the query: for positions i < j of the result,
\* distance(query, result[i]) <= distance(query, result[j]).
C4_NeighboursSortedByDistance ==
    (op = "get_neighbours" /\ raised = "none" /\ K >= 1 /\ SameDims) =>
        \A i, j \in 1..Len(neighbours.data) :
            i < j => SquaredDistance(test_instance, neighbours.data[i])
                        <= SquaredDistance(test_instance, neighbours.data[j])

\* The training set is not in order of distance, find returns at least two
\* neighbours and the second is strictly farther than the first.
C4_Witness ==
    /\ op = "get_neighbours" /\ raised = "none" /\ K >= 2 /\ SameDims
    /\ Len(neighbours.data) >= 2
    /\ SquaredDistance(test_instance, data[1]) > SquaredDistance(test_instance, data[2])
    /\ SquaredDistance(test_instance, neighbours.data[1])
            < SquaredDistance(test_instance, neighbours.data[2])

\* C5: for every reference set of n points and every k >= 1, find returns
\* exactly min(k, n) neighbours and min(k, n) labels, and raises no error.
C5_NeighbourCount ==
    (op = "get_neighbours" /\ K >= 1 /\ SameDims) =>
        /\ raised = "none"
        /\ Len(neighbours.data) = Min(K, Len(data))
        /\ Len(neighbours.labels) = Min(K, Len(data))

\* The index order of a stable sort by distance: ties in reference order.
StableOrder ==
    CHOOSE idx \in Permutations(Len(data)) :
        \A i, j \in 1..Len(data) :
            i < j =>
                LET di == SquaredDistance(test_instance, data[idx[i]])
                    dj == SquaredDistance(test_instance, data[idx[j]])
                IN di < dj \/ (di = dj /\ idx[i] < idx[j])

\* C6: reference points at exactly the same distance from the query are
\* ordered by their index in the reference set, so that when k cuts through a
\* group of tied points the earlier ones are returned.
C6_TiesInReferenceOrder ==
    (op = "get_neighbours" /\ raised = "none" /\ K >= 1 /\ SameDims) =>
        /\ neighbours.data = slice_upto(fancy_index(data, StableOrder), K)
        /\ neighbours.labels = slice_upto(fancy_index(labels, StableOrder), K)

\* C1: for every reference set with at least one point, every query of the
\* same dimensionality and k = 1, classify returns the label of a reference
\* point whose distance to the query is minimal over the whole reference set;
\* the two examples of the notebook both give label 1.
C1_ClassifyNearest ==
    /\ (op = "classify" /\ K = 1 /\ Len(data) >= 1 /\ SameDims) =>
            /\ raised = "none"
            /\ \E i \in 1..Len(data) :
                    /\ labels[i] = response
                    /\ \A j \in 1..Len(data) :
                            SquaredDistance(test_instance, data[i])
                                <= SquaredDistance(test_instance, data[j])
    /\ (op = "classify" /\ K = 1 /\ <<data, labels, test_instance>> \in NotebookTraining) =>
            raised = "none" /\ response = 1

\* The nearest point is not the first of the training set and carries another
\* label than the first; classify with k = 1 returns the nearest point's label.
C1_Witness ==
    /\ op = "classify" /\ K = 1 /\ raised = "none" /\ SameDims
    /\ Len(data) >= 2
    /\ \A j \in 1..Len(data) :
            SquaredDistance(test_instance, data[2]) <= SquaredDistance(test_instance, data[j])
    /\ SquaredDistance(test_instance, data[2]) < SquaredDistance(test_instance, data[1])
    /\ labels[1] # labels[2] /\ response = labels[2]

\* C11: when truth and predicted are both empty, accuracy fails with the
\* dedicated EmptyInput error, not with a division-by-zero failure and not with
\* a returned value.
C11_EmptyInputError ==
    (op = "get_accuracy" /\ test_set = <<>> /\ predictions = <<>>) =>
        raised \notin {"none", "ZeroDivisionError"}

\* C12: vote on an empty sequence of labels fails with an error (the
\* EmptyNeighborSet case) and returns no label.
C12_EmptyVoteFails ==
    (op = "get_response" /\ votes = <<>>) =>
        raised # "none" /\ response = NoValue

\* get_response was called on the empty list and raised.
C12_Witness ==
    op = "get_response" /\ votes = <<>> /\ raised = "IndexError"

\* C13: classify on an empty reference set with k = 1 ends in a failure and
\* returns no label, and the failure does not come from inside find: find
\* returns an empty result and the vote on it fails, or the empty result is
\* detected before the vote.
C13_EmptyReferenceFailsAtVote ==
    (op = "classify" /\ K = 1 /\ data = <<>>) =>
        /\ raised # "none" /\ response = NoValue
        /\ raised_in # "get_neighbours"

\* C14: find fails with an error whenever a reference vector's length differs
\* from the query's, also when the reference vectors are the longer ones; it
\* never ranks neighbours by distances over the first len(query) dimensions.
C14_DimensionMismatchFails ==
    (op = "get_neighbours" /\ K >= 1 /\ ~SameDims) => raised # "none"

\* C15: for vectors a and b of equal length, distance(a, b) = distance(b, a),
\* for integers and for floats.
C15_DistanceSymmetric ==
    /\ (op = "euclidean_distance" /\ Len(data1) = Len(data2)) =>
            /\ raised = "none"
            /\ euclidean_distance(data2, data1) = Return(distance)
    /\ (op = "euclidean_distance (floats)" /\ Len(data1) = Len(data2)) =>
            /\ raised = "none"
            /\ euclidean_distance_float(data2, data1) = Return(distance)

\* Two different vectors of one length at a distance above zero.
C15_Witness ==
    /\ op = "euclidean_distance" /\ raised = "none"
    /\ data1 = <<0, 2>> /\ data2 = <<1, 0>>
    /\ distance > 2 * FloatScale

\* C16 as written: for vectors a and b of equal length, distance(a, b) is zero
\* exactly when a and b are equal element by element.
C16_ZeroIffEqual ==
    (op \in {"euclidean_distance", "euclidean_distance (floats)"}
        /\ Len(data1) = Len(data2)) =>
            /\ raised = "none"
            /\ distance = 0 <=> data1 = data2

\* C16, amended: for vectors a and b of equal length, distance(a, a) is zero,
\* and distance(a, b) is zero exactly when every squared difference
\* (a[i] - b[i]) ** 2 is zero: for integers exactly when a = b, for floats also
\* when a and b differ by so little that the squares underflow to zero.
C16_ZeroIffSquaresZero ==
    /\ (op = "euclidean_distance" /\ Len(data1) = Len(data2)) =>
            /\ raised = "none"
            /\ distance = 0 <=> data1 = data2
    /\ (op = "euclidean_distance (floats)" /\ Len(data1) = Len(data2)) =>
            /\ raised = "none"
            /\ data1 = data2 => distance = 0
            /\ distance = 0 <=>
                    \A l \in 1..Len(data1) : float_square(data1[l] - data2[l]) = 0

\* Two vectors of floats that differ by the smallest positive float in their
\* second coordinate: the square underflows and the distance is zero.
C16_Witness ==
    /\ op = "euclidean_distance (floats)" /\ raised = "none"
    /\ data1 = <<FloatScale, 1>> /\ data2 = <<FloatScale, 0>>
    /\ distance = 0

\* C17: through any sequence of distance, find, vote, classify and accuracy
\* calls, returning or raising, the caller's reference set (the vectors and the
\* labels, values and order) and the query stay as they were.
C17_InputsUnchanged ==
    [][data' = data /\ labels' = labels /\ test_instance' = test_instance]_vars

\* After a distance call and a find that returned the two training rows in
\* another order than the training set has them, a later call has raised or
\* returned, and the training set is still in its own order.
C17_Witness ==
    /\ cell = "session" /\ op = "get_accuracy"
    /\ distance # NoValue /\ Len(data) = 2
    /\ Len(neighbours.data) = 2 /\ neighbours.data # data
    /\ SquaredDistance(test_instance, data[1]) > SquaredDistance(test_instance, data[2])

\* C18: the result of find is a function of the reference set, the query and k
\* alone: a call returns what the first call with the same arguments returned,
\* whatever was called in between.
C18_FindIsDeterministic ==
    \A k \in SessionK : Len(found[k]) = 2 => found[k][2] = found[k][1]

\* find was called twice with k = 1 on two rows at one distance from the query
\* (so that the order of the tie decides the result), and with k = 2 and a
\* classification in between.
C18_Witness ==
    /\ cell = "session" /\ op = "get_neighbours" /\ K = 1 /\ raised = "none"
    /\ Len(found[1]) = 2 /\ Len(found[2]) >= 1
    /\ response # NoValue
    /\ Len(data) = 2 /\ data[1] = data[2] /\ labels[1] # labels[2]

\* C20: a classify or accuracy call that raises binds no label and no score and
\* changes nothing else; one that returns binds a complete result: a label of
\* the training set, or a score between 0 and 100.
C20_AllOrNothing ==
    [][/\ (op' \in {"classify", "get_accuracy"} /\ raised' # "none") =>
            UNCHANGED <<inputs, distance, neighbours, response, accuracy>>
       /\ (op' = "classify" /\ raised' = "none") =>
            /\ \E i \in 1..Len(labels) : response' = labels[i]
            /\ UNCHANGED <<inputs, distance, accuracy>>
       /\ (op' = "get_accuracy" /\ raised' = "none") =>
            /\ accuracy' \in 0..(100 * FloatScale)
            /\ UNCHANGED <<inputs, distance, neighbours, response>>]_vars

\* A classification that raised after get_response and get_accuracy had bound
\* a label and a score, which are still there.
C20_Witness ==
    /\ cell = "session" /\ op = "classify" /\ raised # "none"
    /\ response # NoValue /\ accuracy # NoValue

\* The outcomes of the classification of test instance q alone: the exception,
\* or "none" and the label.
ClassifiedAlone(q, k) ==
    {[raised |-> r.raised, label |-> r.label] : r \in classify(data, labels, q, k)}

\* C19: in a batch of queries against one training set, whatever the order and
\* the interleaving of the queries' calls, the label (or the failure) of query
\* i is that of classify on query i alone; it does not depend on the other
\* queries of the batch.
C19_BatchIsIndependent ==
    \A i \in DOMAIN batch.queries :
        batch.pc[i] \in {"done", "raised"} =>
            [raised |-> batch.raised[i], label |-> batch.label[i]]
                \in ClassifiedAlone(batch.queries[i], batch.K)

\* Two queries with different nearest neighbours: the second has its label
\* while the first is between its two calls, and the two get different labels.
C19_Witness ==
    /\ cell = "batch" /\ Len(batch.queries) = 2 /\ batch.K = 1
    /\ batch.pc = <<"get_response", "done">>
    /\ batch.neighbours[1].labels # <<batch.label[2]>>

\* C21: for k >= 1, every neighbour find returns is a reference point together
\* with its own label (data[i] and labels[i] at one position of the result,
\* no point used twice), and no reference point left out of the result is
\* strictly closer to the query than a returned one.
C21_NeighboursAreNearestWithOwnLabels ==
    (op = "get_neighbours" /\ raised = "none" /\ K >= 1 /\ SameDims) =>
        \E p \in Permutations(Len(data)) :
            /\ Len(neighbours.data) <= Len(data)
            /\ Len(neighbours.labels) = Len(neighbours.data)
            /\ \A i \in 1..Len(neighbours.data) :
                    /\ neighbours.data[i] = data[p[i]]
                    /\ neighbours.labels[i] = labels[p[i]]
                    /\ \A j \in (Len(neighbours.data) + 1)..Len(data) :
                            SquaredDistance(test_instance, data[p[j]])
                                >= SquaredDistance(test_instance, data[p[i]])

\* Of three points with three different distances the two nearest are returned,
\* the third of the training set before the first, each with its label, and the
\* point left out is the farthest.
C21_Witness ==
    /\ op = "get_neighbours" /\ raised = "none" /\ K = 2 /\ SameDims
    /\ Len(data) = 3
    /\ neighbours.data = <<data[3], data[1]>>
    /\ neighbours.labels = <<labels[3], labels[1]>> /\ labels[3] # labels[1]
    /\ SquaredDistance(test_instance, data[3]) < SquaredDistance(test_instance, data[1])
    /\ SquaredDistance(test_instance, data[1]) < SquaredDistance(test_instance, data[2])

\* C24: get_neighbours does not reject a K that is not positive: on a
\* reference set of n >= 1 points of the query's dimensionality, K = 0 gives an
\* empty result and K < 0 the first max(n + K, 0) points of the reference set
\* sorted by distance, with their labels, and no error.
C24_NonPositiveKNotRejected ==
    (op = "get_neighbours" /\ K <= 0 /\ Len(data) >= 1 /\ SameDims) =>
        /\ raised = "none"
        /\ Len(neighbours.data) = (IF K = 0 THEN 0 ELSE Max(Len(data) + K, 0))
        /\ \E p \in Permutations(Len(data)) :
            /\ \A i, j \in 1..Len(data) :
                    i < j => SquaredDistance(test_instance, data[p[i]])
                                <= SquaredDistance(test_instance, data[p[j]])
            /\ neighbours.data = SubSeq(fancy_index(data, p), 1, Len(neighbours.data))
            /\ neighbours.labels = SubSeq(fancy_index(labels, p), 1, Len(neighbours.data))

\* K = -1 on three points: the two nearest are returned, the nearest not being
\* the first of the training set.
C24_Witness ==
    /\ op = "get_neighbours" /\ raised = "none" /\ K = 0 - 1 /\ SameDims
    /\ Len(data) = 3 /\ Len(neighbours.data) = 2
    /\ SquaredDistance(test_instance, neighbours.data[1])
            < SquaredDistance(test_instance, data[1])

\* C25: on a reference set of n >= 1 points in which one label occurs strictly
\* more often than every other label, classify with k >= n returns that label
\* for every query of the points' dimensionality, whatever the query is.
C25_LargeKGivesMostFrequentLabel ==
    (op = "classify" /\ Len(data) >= 1 /\ K >= Len(data) /\ SameDims) =>
        \A i \in 1..Len(labels) :
            (\A j \in 1..Len(labels) :
                labels[j] # labels[i] => Count(labels, labels[i]) > Count(labels, labels[j]))
            => raised = "none" /\ response = labels[i]

\* Three points and k = 4: the nearest point carries the label that occurs
\* once, and classify returns the label that occurs twice.
C25_Witness ==
    /\ op = "classify" /\ raised = "none" /\ SameDims
    /\ Len(data) = 3 /\ K = 4
    /\ labels[2] = labels[3] /\ labels[1] # labels[2]
    /\ SquaredDistance(test_instance, data[1]) < SquaredDistance(test_instance, data[2])
    /\ SquaredDistance(test_instance, data[1]) < SquaredDistance(test_instance, data[3])
    /\ response = labels[2]

\* The mean has just been assigned for the current K.
ElbowAveraged == elbow.pc \in {"for K", "plot"} /\ elbow.K >= 1

\* The distance of row j to the centre of its cluster over the given columns.
CentroidDistance(j, columns) ==
    float_sqrt(squares_loop(elbow.X_scaled[j], elbow.centroids[elbow.labels[j]],
                            1, columns, 0))

\* C22: in the elbow loop, cluster_averaged_distances[K - 1] is the mean, over
\* all rows, of the Euclidean distance of the row to the centroid of its
\* assigned cluster, the distance taken over all the columns of X_scaled.
C22_MeanOfFullDistances ==
    ElbowAveraged =>
        elbow.cluster_averaged_distances[elbow.K] =
            np_mean([j \in 1..Len(elbow.X_scaled) |->
                        CentroidDistance(j, Len(elbow.X_scaled[j]))])

\* C23: when cluster_averaged_distances[K - 1] is written, every entry of
\* euclidean_distances has been reset and recomputed from the labels and the
\* centroids of the current K, and every entry of cluster_averaged_distances
\* is written once: the entries up to K hold one assignment, the later ones
\* none, and all of them one when the loop has ended.
C23_NoStaleDistance ==
    /\ ElbowAveraged =>
          \A j \in 1..Len(elbow.X_scaled) :
              /\ elbow.computed_for[j] = elbow.K
              /\ elbow.euclidean_distances[j] = CentroidDistance(j, DistanceColumns)
    /\ cell = "elbow" =>
          \A i \in 1..MaxClusters :
              elbow.written[i] =
                  (IF i < elbow.K \/ (i = elbow.K /\ ElbowAveraged) THEN 1 ELSE 0)
    /\ elbow.pc = "plot" =>
          \A i \in 1..MaxClusters : elbow.written[i] = 1

\* The loop has ended; the distances of K = 1 were not all zero and the ones of
\* the last K are.
C23_Witness ==
    /\ elbow.pc = "plot" /\ elbow.K = MaxClusters
    /\ elbow.cluster_averaged_distances[1] > 0
    /\ \A j \in 1..Len(elbow.X_scaled) : elbow.euclidean_distances[j] = 0
    /\ elbow.cluster_averaged_distances[MaxClusters] = 0

====
